---------------------------- MODULE Spec2Model ----------------------------
(***************************************************************************)
(* Model of src/scraper.py: CompanyContactScraper.run and the methods it   *)
(* calls (load_excel_file, find_empty_rows, scrape_website,                *)
(* update_excel_row, save_excel) and GeminiExtractor.extract_contacts.     *)
(*                                                                         *)
(* Strings are sequences of tokens; a token is a TLA+ string standing for  *)
(* a substring that the code never looks inside (" " is one blank, "+" is  *)
(* a plus sign, "'" is an apostrophe, "a.com" is a host name ...).         *)
(* Concatenation is \o, startswith looks at the first token, strip removes *)
(* leading and trailing " " tokens.  A DataFrame is a sequence of rows     *)
(* (records with the fields url, email, phone); the pandas index of a row  *)
(* after reset_index is its position, counted from 1 here.                 *)
(***************************************************************************)
EXTENDS Integers, Sequences, FiniteSets, TLC

\* ------------------------------------------------------------------ bounds
MaxRows == 2
\* counts typed at the prompt: up to one more than there are rows
MaxCount == MaxRows + 1

\* --------------------------------------------------------------- strings
SP == " "
NaN == <<"<NaN>">>
EmptyStr == <<>>
NotFound == <<"Not found">>
Error == <<"Error">>
Duplicate == <<"Duplicate">>
Sentinels == {EmptyStr, NotFound, Error, Duplicate}
PhoneSentinels == {NotFound, Error, Duplicate}
Protocols == {"http://", "https://"}
email_column == "email"
phone_column == "phone"
ColumnOrder == <<"url", "email", "phone">>
RowLabels == "Row Labels"
header_texts == {<<"Row Labels">>, <<"unique website link">>, <<"Count of date when found">>}
\* tokens of the model's alphabet that contain one of '.com', '.lt', '.eu',
\* '.org', '.net', 'http', 'www.' as a substring
WebsiteTokens == {"a.com", "b.com", "x@a.com", "y@b.com", "http://", "https://"}
\* the same with the extra marker '//' of detect_url_column
DetectTokens == WebsiteTokens

isna(v) == v = NaN

RECURSIVE lstrip(_)
lstrip(s) == IF s # <<>> /\ Head(s) = SP THEN lstrip(Tail(s)) ELSE s

RECURSIVE rstrip(_)
rstrip(s) == IF s # <<>> /\ s[Len(s)] = SP THEN rstrip(SubSeq(s, 1, Len(s) - 1)) ELSE s

strip(s) == rstrip(lstrip(s))

startswith(s, prefixes) == s # <<>> /\ Head(s) \in prefixes

contains_any(s, toks) == \E k \in 1..Len(s) : s[k] \in toks

\* ', '.join(list)
RECURSIVE join(_)
join(list) ==
    IF list = <<>> THEN <<>>
    ELSE IF Len(list) = 1 THEN list[1]
    ELSE list[1] \o <<", ">> \o join(Tail(list))

\* list[:n]
take(list, n) == SubSeq(list, 1, IF Len(list) < n THEN Len(list) ELSE n)


\* ------------------------------------------------------- spreadsheet file
\* A file is NoFile or a record: urlCol is the header of the first column,
\* cols says whether the "Email" and "Phone number" columns exist, rows are
\* the cell values ("" for an empty cell).
NoFile == [exists |-> FALSE]

UA == <<"a.com">>
UAs == <<"https://", "a.com">>
UB == <<"b.com">>
UPad == <<SP, "b.com">>
UHeader == <<"Row Labels">>

FileUrls == {UA, UHeader}

FileRows ==
    { [url |-> UA, email |-> EmptyStr, phone |-> EmptyStr],
      [url |-> UAs, email |-> EmptyStr, phone |-> EmptyStr],
      [url |-> UPad, email |-> <<"x@a.com">>, phone |-> <<"Not found", SP>>],
      [url |-> UB, email |-> <<"y@b.com">>, phone |-> <<"'", "+", "370">>],
      [url |-> UHeader, email |-> <<"x@a.com">>, phone |-> EmptyStr] }

UrlOnlyRows == { [url |-> u, email |-> EmptyStr, phone |-> EmptyStr] : u \in FileUrls }

SeqsUpTo(S, n) == UNION { [1..k -> S] : k \in 0..n }

Files ==
    { [exists |-> TRUE, urlCol |-> "Website", cols |-> TRUE, rows |-> r] :
          r \in SeqsUpTo(FileRows, MaxRows) }
    \cup
    { [exists |-> TRUE, urlCol |-> c, cols |-> FALSE, rows |-> r] :
          c \in {"Website", RowLabels}, r \in SeqsUpTo(UrlOnlyRows, MaxRows) }

\* pd.read_excel: an empty cell is read as NaN
read_cell(v) == IF v = EmptyStr THEN NaN ELSE v

read_excel(f) ==
    [k \in 1..Len(f.rows) |->
        [url |-> read_cell(f.rows[k].url),
         email |-> read_cell(f.rows[k].email),
         phone |-> read_cell(f.rows[k].phone)]]

\* DataFrame.to_excel(index=False): NaN is written as an empty cell (na_rep)
write_cell(v) == IF isna(v) THEN EmptyStr ELSE v

to_excel(rows, f) ==
    [exists |-> TRUE, urlCol |-> f.urlCol, cols |-> TRUE,
     rows |-> [k \in 1..Len(rows) |->
                 [url |-> write_cell(rows[k].url),
                  email |-> write_cell(rows[k].email),
                  phone |-> write_cell(rows[k].phone)]]]

\* df[col].dropna()
RECURSIVE dropna(_, _)
dropna(rows, col) ==
    IF rows = <<>> THEN <<>>
    ELSE IF isna(Head(rows)[col]) THEN dropna(Tail(rows), col)
    ELSE <<Head(rows)[col]>> \o dropna(Tail(rows), col)

HeadCount == 5

column_has_url(rows, col) ==
    LET vals == take(dropna(rows, col), HeadCount)
    IN \E k \in 1..Len(vals) : contains_any(strip(vals[k]), DetectTokens)

NoColumn == "None"

RECURSIVE detect_loop(_, _, _)
detect_loop(rows, columns, k) ==
    IF k > Len(ColumnOrder) THEN NoColumn
    ELSE IF ColumnOrder[k] \in columns /\ column_has_url(rows, ColumnOrder[k])
         THEN ColumnOrder[k]
    ELSE detect_loop(rows, columns, k + 1)

detect_url_column(rows, columns, urlCol) ==
    LET found == detect_loop(rows, columns, 1)
    IN IF found # NoColumn THEN found
       ELSE IF urlCol = RowLabels THEN "url"
       ELSE NoColumn

is_website(url) == ~isna(url) /\ contains_any(strip(url), WebsiteTokens)

RECURSIVE clean_dataframe(_, _)
clean_dataframe(rows, col) ==
    IF rows = <<>> THEN <<>>
    ELSE IF Head(rows)[col] \notin header_texts /\ is_website(Head(rows)[col])
         THEN <<Head(rows)>> \o clean_dataframe(Tail(rows), col)
    ELSE clean_dataframe(Tail(rows), col)

file_columns(f) == IF f.cols THEN {"url", "email", "phone"} ELSE {"url"}

\* the Email / Phone number columns are created with "" when absent
add_columns(rows, columns) ==
    [k \in 1..Len(rows) |->
        [url |-> rows[k].url,
         email |-> IF email_column \in columns THEN rows[k].email ELSE EmptyStr,
         phone |-> IF phone_column \in columns THEN rows[k].phone ELSE EmptyStr]]

load_excel_file(f) ==
    IF ~f.exists THEN [ok |-> FALSE, df |-> <<>>, url_column |-> NoColumn]
    ELSE LET raw == read_excel(f)
             col == detect_url_column(raw, file_columns(f), f.urlCol)
         IN IF col = NoColumn THEN [ok |-> FALSE, df |-> raw, url_column |-> NoColumn]
            ELSE [ok |-> TRUE,
                  df |-> add_columns(clean_dataframe(raw, col), file_columns(f)),
                  url_column |-> col]


\* --------------------------------------------------------- find_empty_rows
cell_empty(v) == isna(v) \/ strip(v) \in Sentinels

url_value(v) == IF ~isna(v) THEN v ELSE EmptyStr

needs_processing(row, col) ==
    /\ cell_empty(row[email_column]) \/ cell_empty(row[phone_column])
    /\ url_value(row[col]) # EmptyStr
    /\ strip(url_value(row[col])) # EmptyStr

\* the loop stopping one row late
break_now_late(acc, count) == Len(acc) > count

break_now(acc, count) == Len(acc) >= count

RECURSIVE find_loop(_, _, _, _, _)
find_loop(rows, col, count, k, acc) ==
    IF k > Len(rows) THEN acc
    ELSE IF break_now(acc, count) THEN acc
    ELSE IF needs_processing(rows[k], col)
         THEN find_loop(rows, col, count, k + 1,
                        Append(acc, <<k, strip(url_value(rows[k][col]))>>))
    ELSE find_loop(rows, col, count, k + 1, acc)

find_empty_rows(rows, col, count) == find_loop(rows, col, count, 1, <<>>)

\* ---------------------------------------------------------- scrape_website
is_duplicate(url, scraped) == url \in scraped

ensure_protocol(url) ==
    IF ~startswith(url, Protocols) THEN <<"https://">> \o url ELSE url

\* an element of a JSON list that is not a string (a number, an object ...)
NonString == <<"<non-string>">>

E1 == <<"x@a.com">>
E2 == <<"y@b.com">>
PPlus == <<"+", "370">>
PLocal == <<"8612">>
PApos == <<"'", "+", "370">>

\* what the Gemini call does: it raises, or it returns text; the text either
\* does not parse as a JSON object or parses to the lists emails / phones
Responses ==
    { [kind |-> "raises", emails |-> <<>>, phones |-> <<>>],
      [kind |-> "badjson", emails |-> <<>>, phones |-> <<>>],
      [kind |-> "json", emails |-> <<>>, phones |-> <<>>],
      [kind |-> "json", emails |-> <<E1>>, phones |-> <<PPlus>>],
      [kind |-> "json", emails |-> <<>>, phones |-> <<PLocal, PPlus>>],
      [kind |-> "json", emails |-> <<E1, E2, E1, E2, E1, E2>>, phones |-> <<PApos>>],
      [kind |-> "json", emails |-> <<NonString>>, phones |-> <<>>] }

MaxContacts == 5

\* the try block of extract_contacts without its except clause: the call
\* failure and the parse failure leave the method as exceptions
extract_contacts_uncaught(c, response) ==
    IF ~c THEN [raised |-> FALSE, emails |-> <<>>, phones |-> <<>>]
    ELSE IF response.kind # "json"
         THEN [raised |-> TRUE, emails |-> <<>>, phones |-> <<>>]
    ELSE [raised |-> FALSE,
          emails |-> take(response.emails, MaxContacts),
          phones |-> take(response.phones, MaxContacts)]

\* GeminiExtractor.extract_contacts: no Exception leaves it (raised is FALSE)
extract_contacts(c, response) ==
    IF ~c THEN [raised |-> FALSE, emails |-> <<>>, phones |-> <<>>]
    ELSE IF response.kind # "json"
         THEN [raised |-> FALSE, emails |-> <<>>, phones |-> <<>>]
    ELSE [raised |-> FALSE,
          emails |-> take(response.emails, MaxContacts),
          phones |-> take(response.phones, MaxContacts)]

\* str.join raises TypeError on an element that is not a string
join_raises(list) == \E k \in 1..Len(list) : list[k] = NonString

format_result(list) == IF list # <<>> THEN join(list) ELSE NotFound

\* the part of scrape_website after page_source was read, with the except
\* clause returning what was formatted so far instead of "Error"
extract_and_format_lenient(c, response) ==
    LET info == extract_contacts(c, response)
    IN IF info.raised \/ join_raises(info.emails) \/ join_raises(info.phones)
       THEN [raised |-> TRUE, email |-> NotFound, phone |-> NotFound]
       ELSE [raised |-> FALSE,
             email |-> format_result(info.emails),
             phone |-> format_result(info.phones)]

\* the part of scrape_website after page_source was read
extract_and_format(c, response) ==
    LET info == extract_contacts(c, response)
    IN IF info.raised \/ join_raises(info.emails) \/ join_raises(info.phones)
       THEN [raised |-> TRUE, email |-> Error, phone |-> Error]
       ELSE [raised |-> FALSE,
             email |-> format_result(info.emails),
             phone |-> format_result(info.phones)]

\* ------------------------------------------------ navigate_to_contact_page
contact_keywords == <<"contact", "kontakt", "contacto", "contatti", "impressum">>

\* the keywords that a token of the model's alphabet contains as a substring
KeywordsIn(tok) ==
    CASE tok = "contact" -> {"contact"}
      [] tok = "contacto" -> {"contact", "contacto"}
      [] tok = "kontakt" -> {"kontakt"}
      [] tok = "impressum" -> {"impressum"}
      [] tok = "/contact" -> {"contact"}
      [] OTHER -> {}

\* contains(lower-cased string, keyword)
contains_keyword(str, kw) == \E k \in 1..Len(str) : kw \in KeywordsIn(str[k])

\* pages: the <a> elements of the loaded page in document order, each with
\* its text, its href and whether it is displayed and enabled
LinkHome == [text |-> <<"home">>, href |-> <<"/">>, clickable |-> TRUE]
LinkContact == [text |-> <<"contact">>, href |-> <<"/contact">>, clickable |-> TRUE]
LinkHidden == [text |-> <<"contacto">>, href |-> <<"/contact">>, clickable |-> FALSE]
LinkLegal == [text |-> <<"kontakt", SP, "impressum">>, href |-> <<"/info">>, clickable |-> TRUE]
LinkTouch == [text |-> <<"get in touch">>, href |-> <<"/contact">>, clickable |-> TRUE]

Pages ==
    { <<LinkHome, LinkContact>>,
      <<LinkHome, LinkTouch>>,
      <<LinkHidden, LinkContact, LinkLegal>> }

\* a search returning the last link whose text contains the keyword
RECURSIVE last_match(_, _, _)
last_match(links, kw, j) ==
    IF j > Len(links) THEN 0
    ELSE LET rest == last_match(links, kw, j + 1)
         IN IF rest # 0 THEN rest
            ELSE IF contains_keyword(links[j].text, kw) THEN j
            ELSE 0

\* find_element(By.XPATH, "//a[contains(translate(text(), ...), keyword)]"):
\* the first link in document order whose text contains the keyword, 0 if none
RECURSIVE first_match(_, _, _)
first_match(links, kw, j) ==
    IF j > Len(links) THEN 0
    ELSE IF contains_keyword(links[j].text, kw) THEN j
    ELSE first_match(links, kw, j + 1)

\* the link wait.until(element_to_be_clickable(...)) yields for a keyword: the
\* first matching link when it is clickable, otherwise 0 (TimeoutException)
clickable_match(links, kw) ==
    LET j == first_match(links, kw, 1)
    IN IF j # 0 /\ links[j].clickable THEN j ELSE 0

\* the for loop of navigate_to_contact_page from keyword k on; skipped are
\* the keywords whose attempt is cut short by an exception that is not a
\* timeout; raised says whether an attempt has failed so far
RECURSIVE navigate_loop(_, _, _, _)
navigate_loop(links, k, skipped, raised) ==
    IF k > Len(contact_keywords) THEN [clicked |-> 0, raised |-> raised]
    ELSE IF k \in skipped THEN navigate_loop(links, k + 1, skipped, TRUE)
    ELSE IF clickable_match(links, contact_keywords[k]) # 0
         THEN [clicked |-> clickable_match(links, contact_keywords[k]), raised |-> raised]
    ELSE navigate_loop(links, k + 1, skipped, TRUE)

navigate_to_contact_page(links, skipped) == navigate_loop(links, 1, skipped, FALSE)

\* the outcome of the call for each page, and for each page and each keyword
\* whose wait is cut short
NavResults == [links \in Pages |-> navigate_to_contact_page(links, {})]

NavResultsSkipping ==
    [links \in Pages |->
        [k \in 1..Len(contact_keywords) |-> navigate_to_contact_page(links, {k})]]

NoNav == [done |-> FALSE, links |-> <<>>, clicked |-> 0, swallowed |-> FALSE]

\* -------------------------------------------------------- update_excel_row
\* the escape applied to every phone value that is not a sentinel
escape_phone_always(phone) ==
    IF phone # EmptyStr /\ phone \notin PhoneSentinels
    THEN <<"'">> \o phone
    ELSE phone

escape_phone(phone) ==
    IF phone # EmptyStr /\ phone \notin PhoneSentinels /\ startswith(phone, {"+"})
    THEN <<"'">> \o phone
    ELSE phone

\* update_excel_row writing the email cell and leaving the phone cell
update_excel_row_email_only(rows, index, email, phone) ==
    [rows EXCEPT ![index] = [@ EXCEPT ![email_column] = email]]

update_excel_row(rows, index, email, phone) ==
    [rows EXCEPT ![index] = [@ EXCEPT ![email_column] = email,
                                      ![phone_column] = escape_phone(phone)]]


\* -------------------------------------------------------------- save_excel
\* outcome "ok": the backup copy and the write both succeed; "write": the
\* copy is made and to_excel raises (the workbook is open in Excel).  The file
\* exists whenever save_excel runs, because load_excel_file read it.
SaveOutcomes == {"ok", "write"}

\* save_excel making the backup and reporting success without writing the table
save_excel_no_write(f, b, rows, outcome) ==
    [ok |-> outcome = "ok",
     backup |-> IF f.exists THEN f ELSE b,
     file |-> f]

save_excel(f, b, rows, outcome) ==
    [ok |-> outcome = "ok",
     backup |-> IF f.exists THEN f ELSE b,
     file |-> IF outcome = "ok" THEN to_excel(rows, f) ELSE f]

\* --------------------------------------------------------------------- run
\* the loop leaving out the last element of the list
continue_loop_short(k, rows, count, n) == k < Len(rows) /\ ~(count >= n)

continue_loop(k, rows, count, n) == k <= Len(rows) /\ ~(count >= n)

VARIABLES
    pc,               \* position in run / scrape_website
    file,             \* content of excel_file on disk
    backup,           \* content of the _backup file on disk
    df,               \* self.df
    url_column,       \* self.url_column
    client,           \* self.gemini.client is not None
    driver,           \* self.driver is a started browser
    num_websites,     \* the count typed at the prompt
    rows_to_process,  \* list of (index, url)
    i,                \* position of the for loop in rows_to_process
    processed_count,  \* self.processed_count
    scraped_urls,     \* self.scraped_urls
    url,              \* local url of scrape_website
    result,           \* (email, phone) returned by scrape_website
    nav,              \* what navigate_to_contact_page saw and clicked
    file0,            \* history: the file as it was before the run
    fetched,          \* history: driver.get calls, as [row, url]
    processedLog,     \* history: indexes passed to update_excel_row
    saveAttempts,     \* history: save_excel calls made by the loop
    lastSaveOk,       \* history: the last save_excel call returned True
    lastAi,           \* history: what the AI did for the row being processed
    raisedAt,         \* history: where exceptions were raised for that row
                      \* ("helper": inside handle_cookie_consent or
                      \* navigate_to_contact_page)
    interrupted,      \* history: a KeyboardInterrupt was delivered
    handlerSaves,     \* history: save_excel calls made by the interrupt handler
    enterPrompts,     \* history: "Press Enter" prompts shown
    exitPath          \* history: the path by which run returned

vars == <<pc, file, backup, df, url_column, client, driver, num_websites,
          rows_to_process, i, processed_count, scraped_urls, url, result, nav,
          file0, fetched, processedLog, saveAttempts, lastSaveOk, lastAi,
          raisedAt, interrupted, handlerSaves, enterPrompts, exitPath>>

diskVars == <<file, backup, file0, saveAttempts, lastSaveOk, handlerSaves>>
tableVars == <<df, url_column>>
loopVars == <<num_websites, rows_to_process, i, processed_count, processedLog>>
scrapeVars == <<scraped_urls, url, result, nav, fetched, lastAi, raisedAt>>
signalVars == <<interrupted>>
exitVars == <<enterPrompts, exitPath>>

Init ==
    /\ pc = "load"
    /\ file \in Files \cup {NoFile}
    /\ file0 = file
    /\ backup = NoFile
    /\ df = <<>>
    /\ url_column = NoColumn
    /\ client \in BOOLEAN
    /\ driver = FALSE
    /\ num_websites = 0
    /\ rows_to_process = <<>>
    /\ i = 0
    /\ processed_count = 0
    /\ scraped_urls = {}
    /\ url = EmptyStr
    /\ result = <<EmptyStr, EmptyStr>>
    /\ nav = NoNav
    /\ fetched = <<>>
    /\ processedLog = <<>>
    /\ saveAttempts = 0
    /\ lastSaveOk = FALSE
    /\ lastAi = "none"
    /\ raisedAt = {}
    /\ interrupted = FALSE
    /\ handlerSaves = 0
    /\ enterPrompts = 0
    /\ exitPath = "running"

\* run, lines 504-509
Load ==
    /\ pc = "load"
    /\ LET r == load_excel_file(file)
       IN IF r.ok
          THEN /\ df' = r.df
               /\ url_column' = r.url_column
               /\ pc' = "prompt"
               /\ UNCHANGED exitVars
          ELSE /\ enterPrompts' = enterPrompts + 1
               /\ exitPath' = "load_failed"
               /\ pc' = "exited"
               /\ UNCHANGED tableVars
    /\ UNCHANGED <<diskVars, client, driver, loopVars, scrapeVars, signalVars>>

\* run, lines 512-513: a positive number is typed
PromptCount ==
    /\ pc = "prompt"
    /\ \E n \in 1..MaxCount : num_websites' = n
    /\ pc' = "setup"
    /\ UNCHANGED <<diskVars, tableVars, client, driver, rows_to_process, i,
                   processed_count, processedLog, scrapeVars, signalVars, exitVars>>

\* run, lines 514-522: a non-positive number, a non-number, or Ctrl-C
PromptRejected ==
    /\ pc = "prompt"
    /\ \E p \in {"non_positive", "value_error", "prompt_interrupt"} : exitPath' = p
    /\ pc' = "exited"
    /\ UNCHANGED <<diskVars, tableVars, client, driver, loopVars, scrapeVars,
                   signalVars, enterPrompts>>

\* run, lines 525-528
SetupDriver ==
    /\ pc = "setup"
    /\ \E ok \in BOOLEAN :
         IF ok
         THEN /\ driver' = TRUE
              /\ pc' = "find"
              /\ UNCHANGED exitVars
         ELSE /\ enterPrompts' = enterPrompts + 1
              /\ exitPath' = "browser_failed"
              /\ pc' = "exited"
              /\ UNCHANGED driver
    /\ UNCHANGED <<diskVars, tableVars, client, loopVars, scrapeVars, signalVars>>

\* run, lines 532-540
FindRows ==
    /\ pc = "find"
    /\ rows_to_process' = find_empty_rows(df, url_column, num_websites)
    /\ IF rows_to_process' = <<>>
       THEN /\ enterPrompts' = enterPrompts + 1
            /\ exitPath' = "nothing_to_do"
            /\ pc' = "finally"
            /\ UNCHANGED i
       ELSE /\ i' = 1
            /\ pc' = "loop"
            /\ UNCHANGED exitVars
    /\ UNCHANGED <<diskVars, tableVars, client, driver, num_websites,
                   processed_count, processedLog, scrapeVars, signalVars>>

\* run, lines 543-547 and 563-570
LoopHead ==
    /\ pc = "loop"
    /\ IF continue_loop(i, rows_to_process, processed_count, num_websites)
       THEN /\ pc' = "scrape"
            /\ UNCHANGED exitVars
       ELSE /\ pc' = "finally"
            /\ exitPath' = "completed"
            /\ UNCHANGED enterPrompts
    /\ UNCHANGED <<diskVars, tableVars, client, driver, loopVars, scrapeVars, signalVars>>


\* scrape_website, lines 384-386: the URL is already in scraped_urls
ScrapeDuplicate ==
    /\ pc = "scrape"
    /\ is_duplicate(rows_to_process[i][2], scraped_urls)
    /\ url' = rows_to_process[i][2]
    /\ result' = <<Duplicate, Duplicate>>
    /\ lastAi' = "none"
    /\ raisedAt' = {}
    /\ pc' = "update"
    /\ UNCHANGED <<diskVars, tableVars, client, driver, loopVars, scraped_urls,
                   nav, fetched, signalVars, exitVars>>

\* scrape_website, lines 388-395 and 426-428: driver.get returns or raises
DriverGet ==
    /\ pc = "scrape"
    /\ ~is_duplicate(rows_to_process[i][2], scraped_urls)
    /\ url' = ensure_protocol(rows_to_process[i][2])
    /\ fetched' = Append(fetched, [row |-> rows_to_process[i][1], url |-> url'])
    /\ lastAi' = "none"
    /\ \E raises \in BOOLEAN :
         IF raises
         THEN /\ result' = <<Error, Error>>
              /\ raisedAt' = {"get"}
              /\ pc' = "update"
         ELSE /\ raisedAt' = {}
              /\ pc' = "cookie"
              /\ UNCHANGED result
    /\ UNCHANGED <<diskVars, tableVars, client, driver, loopVars, scraped_urls,
                   nav, signalVars, exitVars>>

\* handle_cookie_consent, lines 324-352: every exception raised inside is
\* caught inside (no button found: TimeoutException for each selector)
HandleCookieConsent ==
    /\ pc = "cookie"
    /\ \E raises \in BOOLEAN :
         raisedAt' = IF raises THEN raisedAt \cup {"helper"} ELSE raisedAt
    /\ pc' = "nav"
    /\ UNCHANGED <<diskVars, tableVars, client, driver, loopVars, scraped_urls,
                   url, result, nav, fetched, lastAi, signalVars, exitVars>>

\* navigate_to_contact_page, lines 354-378: the keywords are tried in order
\* on the links of the loaded page; a keyword without a clickable match
\* raises TimeoutException, which is caught inside
NavigateToContactPage ==
    /\ pc = "nav"
    /\ \E links \in Pages :
         LET r == NavResults[links]
         IN /\ nav' = [done |-> TRUE, links |-> links, clicked |-> r.clicked,
                       swallowed |-> FALSE]
            /\ raisedAt' = IF r.raised THEN raisedAt \cup {"helper"} ELSE raisedAt
    /\ pc' = "extract"
    /\ UNCHANGED <<diskVars, tableVars, client, driver, loopVars, scraped_urls,
                   url, result, fetched, lastAi, signalVars, exitVars>>

\* scrape_website, lines 404 and 426-428: driver.page_source raises
PageSourceRaises ==
    /\ pc = "extract"
    /\ result' = <<Error, Error>>
    /\ raisedAt' = raisedAt \cup {"page_source"}
    /\ nav' = NoNav
    /\ pc' = "update"
    /\ UNCHANGED <<diskVars, tableVars, client, driver, loopVars, scraped_urls,
                   url, fetched, lastAi, signalVars, exitVars>>

ai_behaviour(c, response) == IF ~c THEN "unavailable" ELSE response.kind

\* scrape_website, lines 404-428: page_source is read, the AI is asked
Extract ==
    /\ pc = "extract"
    /\ \E response \in Responses :
         LET r == extract_and_format(client, response)
             ai == ai_behaviour(client, response)
         IN /\ lastAi' = ai
            /\ result' = <<r.email, r.phone>>
            /\ raisedAt' = raisedAt
                            \cup (IF ai \in {"raises", "badjson"} THEN {"extract"} ELSE {})
                            \cup (IF r.raised THEN {"format"} ELSE {})
            /\ scraped_urls' = IF r.raised THEN scraped_urls ELSE scraped_urls \cup {url}
    /\ nav' = NoNav
    /\ pc' = "update"
    /\ UNCHANGED <<diskVars, tableVars, client, driver, loopVars, url, fetched,
                   signalVars, exitVars>>

\* run, lines 553-554
UpdateRow ==
    /\ pc = "update"
    /\ df' = update_excel_row(df, rows_to_process[i][1], result[1], result[2])
    /\ processed_count' = processed_count + 1
    /\ processedLog' = Append(processedLog, rows_to_process[i][1])
    /\ pc' = "save"
    /\ UNCHANGED <<diskVars, url_column, client, driver, num_websites,
                   rows_to_process, i, scrapeVars, signalVars, exitVars>>

\* run, lines 557-561: save_excel, then sleep and take the next list element
SaveRow ==
    /\ pc = "save"
    /\ \E outcome \in SaveOutcomes :
         LET r == save_excel(file, backup, df, outcome)
         IN /\ file' = r.file
            /\ backup' = r.backup
            /\ lastSaveOk' = r.ok
    /\ saveAttempts' = saveAttempts + 1
    /\ i' = i + 1
    /\ lastAi' = "none"
    /\ raisedAt' = {}
    /\ pc' = "loop"
    /\ UNCHANGED <<file0, handlerSaves, tableVars, client, driver, num_websites,
                   rows_to_process, processed_count, processedLog, scraped_urls,
                   url, result, nav, fetched, signalVars, exitVars>>

\* Ctrl-C while the try block of run executes, outside the bare excepts:
\* no handler below run catches KeyboardInterrupt (they catch Exception)
InterruptPcs == {"find", "loop", "scrape", "cookie", "nav", "extract", "update", "save"}

Interrupt ==
    /\ pc \in InterruptPcs
    /\ interrupted' = TRUE
    /\ nav' = NoNav
    /\ pc' = "interrupted"
    /\ UNCHANGED <<diskVars, tableVars, client, driver, loopVars, scraped_urls, url,
                   result, fetched, lastAi, raisedAt, exitVars>>

\* where a bare except leaves the control after catching a KeyboardInterrupt
after_swallow(p) == IF p = "cookie" THEN "nav" ELSE "extract"

\* Ctrl-C inside wait.until / click / sleep of handle_cookie_consent (lines
\* 339-346) or navigate_to_contact_page (lines 360-372): the bare except
\* catches it and the method goes on with the next selector or keyword
InterruptSwallowed ==
    /\ pc \in {"cookie", "nav"}
    /\ interrupted' = TRUE
    /\ IF pc = "nav"
       THEN \E links \in Pages : \E k \in 1..Len(contact_keywords) :
               LET r == NavResultsSkipping[links][k]
               IN /\ nav' = [done |-> TRUE, links |-> links, clicked |-> r.clicked,
                             swallowed |-> TRUE]
                  /\ raisedAt' = IF r.raised THEN raisedAt \cup {"helper"} ELSE raisedAt
       ELSE UNCHANGED <<nav, raisedAt>>
    /\ pc' = after_swallow(pc)
    /\ UNCHANGED <<diskVars, tableVars, client, driver, loopVars, scraped_urls, url,
                   result, fetched, lastAi, exitVars>>

\* run, lines 572-574
HandleInterrupt ==
    /\ pc = "interrupted"
    /\ \E outcome \in SaveOutcomes :
         LET r == save_excel(file, backup, df, outcome)
         IN /\ file' = r.file
            /\ backup' = r.backup
            /\ lastSaveOk' = r.ok
    /\ handlerSaves' = handlerSaves + 1
    /\ exitPath' = "interrupted"
    /\ pc' = "finally"
    /\ UNCHANGED <<file0, saveAttempts, tableVars, client, driver, loopVars,
                   scrapeVars, signalVars, enterPrompts>>

\* run, lines 575-577: an Exception escapes the loop body (print at line 547
\* raising OSError on a closed console is the one statement of the loop
\* outside every inner handler)
UnexpectedError ==
    /\ pc = "loop"
    /\ exitPath' = "unexpected_error"
    /\ pc' = "finally"
    /\ UNCHANGED <<diskVars, tableVars, client, driver, loopVars, scrapeVars,
                   signalVars, enterPrompts>>

\* run, lines 578-584
Finally ==
    /\ pc = "finally"
    /\ driver' = FALSE
    /\ enterPrompts' = enterPrompts + 1
    /\ pc' = "exited"
    /\ UNCHANGED <<diskVars, tableVars, client, loopVars, scrapeVars, signalVars, exitPath>>

Next ==
    \/ Load
    \/ PromptCount
    \/ PromptRejected
    \/ SetupDriver
    \/ FindRows
    \/ LoopHead
    \/ ScrapeDuplicate
    \/ DriverGet
    \/ HandleCookieConsent
    \/ NavigateToContactPage
    \/ PageSourceRaises
    \/ Extract
    \/ UpdateRow
    \/ SaveRow
    \/ Interrupt
    \/ InterruptSwallowed
    \/ HandleInterrupt
    \/ UnexpectedError
    \/ Finally

Spec == Init /\ [][Next]_vars

Min(a, b) == IF a < b THEN a ELSE b

\* ------------------------------------------------------------------ claims
\* the row of the table that the loop is working on
CurrentIndex == rows_to_process[i][1]

\* C1: for any two processed rows whose URLs normalize to the same URL, the
\* later row holds "Duplicate" in the email and the phone cell and no page
\* fetch was made for it.
C1_LaterRowIsDuplicate ==
    \A a, b \in 1..Len(processedLog) :
        (a < b /\ ensure_protocol(rows_to_process[a][2]) = ensure_protocol(rows_to_process[b][2]))
        => /\ df[processedLog[b]][email_column] = Duplicate
           /\ df[processedLog[b]][phone_column] = Duplicate
           /\ \A k \in 1..Len(fetched) : fetched[k].row # processedLog[b]

\* C2 as stated: whenever an exception was raised while the row was fetched
\* or extracted (driver.get, cookie handling, contact navigation,
\* page_source, extraction), the row's result is "Error" / "Error".
C2_AnyExceptionGivesError ==
    (pc = "update" /\ raisedAt # {}) => result = <<Error, Error>>

PropagatingSites == {"get", "page_source", "format"}
SwallowingSites == {"helper", "extract"}

\* C2 amended: an exception that leaves driver.get, driver.page_source or the
\* formatting of the extracted lists makes the row's result, and then both
\* of its cells, "Error"; an exception raised inside cookie handling,
\* contact navigation or the AI extraction alone does not; no row is fetched
\* or written twice; and the run completes only when every selected row has
\* been processed.
C2_PropagatedExceptionGivesError ==
    /\ (pc \in {"update", "save"} /\ raisedAt \cap PropagatingSites # {})
          => result = <<Error, Error>>
    /\ (pc = "save" /\ raisedAt \cap PropagatingSites # {})
          => /\ df[CurrentIndex][email_column] = Error
             /\ df[CurrentIndex][phone_column] = Error
    /\ (pc = "update" /\ raisedAt # {} /\ raisedAt \subseteq SwallowingSites)
          => result # <<Error, Error>>
    /\ \A a, b \in 1..Len(fetched) : a # b => fetched[a].row # fetched[b].row
    /\ \A a, b \in 1..Len(processedLog) : a # b => processedLog[a] # processedLog[b]
    /\ exitPath = "completed" => Len(processedLog) = Len(rows_to_process)

\* a row ended as "Error" and the loop went on to fetch the next one
C2_Witness ==
    /\ pc = "cookie"
    /\ i = 2
    /\ df[rows_to_process[1][1]][email_column] = Error
    /\ df[rows_to_process[1][1]][phone_column] = Error
    /\ Len(fetched) = 2

\* the rows the claim calls pending, read off the table
PendingRow(rows, col, k) ==
    /\ rows[k][col] # NaN
    /\ strip(rows[k][col]) # EmptyStr
    /\ \E c \in {email_column, phone_column} :
          \/ rows[k][c] = NaN
          \/ strip(rows[k][c]) \in {EmptyStr, NotFound, Error, Duplicate}

PendingSet(rows, col) == { k \in 1..Len(rows) : PendingRow(rows, col, k) }

FirstPending(list, rows, col, n) ==
    /\ Len(list) = Min(n, Cardinality(PendingSet(rows, col)))
    /\ \A a \in 1..Len(list) :
          /\ list[a][1] \in PendingSet(rows, col)
          /\ list[a][2] = strip(rows[list[a][1]][col])
    /\ \A a, b \in 1..Len(list) : a < b => list[a][1] < list[b][1]
    /\ \A a \in 1..Len(list) : \A k \in PendingSet(rows, col) :
          k < list[a][1] => \E b \in 1..Len(list) : list[b][1] = k

\* C3: find_empty_rows(N) returns, in row order, exactly the first min(N, P)
\* pending rows: every returned row is pending, none is returned twice or out
\* of order, and no pending row before a returned one is left out.  (The
\* table is still as loaded when the loop has not yet processed a row.)
C3_FindEmptyRows ==
    /\ (pc = "loop" /\ processed_count = 0)
          => FirstPending(rows_to_process, df, url_column, num_websites)
    /\ exitPath = "nothing_to_do" => PendingSet(df, url_column) = {}

\* more rows are pending than were asked for, and exactly N were returned
C3_Witness ==
    /\ pc = "loop"
    /\ processed_count = 0
    /\ Len(rows_to_process) = num_websites
    /\ Cardinality(PendingSet(df, url_column)) > num_websites

\* the table as load_excel_file builds it from the file the run started with
LoadedTable == load_excel_file(file0)

PendingAtLoad == Cardinality(PendingSet(LoadedTable.df, LoadedTable.url_column))

\* statements left in the current loop iteration, by position
PcRank ==
    [p \in {"loop", "scrape", "cookie", "nav", "extract", "update", "save"} |->
        CASE p = "loop" -> 7 [] p = "scrape" -> 6 [] p = "cookie" -> 5
          [] p = "nav" -> 4 [] p = "extract" -> 3 [] p = "update" -> 2
          [] OTHER -> 1]

IterationLength == Cardinality(DOMAIN PcRank) + 1

\* an upper bound on the number of steps run can still take
StepsLeft ==
    CASE pc = "exited" -> 0
      [] pc = "finally" -> 1
      [] pc = "interrupted" -> 2
      [] pc \in DOMAIN PcRank ->
            (Len(rows_to_process) + 1 - i) * IterationLength + PcRank[pc]
      [] pc = "find" -> (MaxRows + 2) * IterationLength + 1
      [] pc = "setup" -> (MaxRows + 2) * IterationLength + 2
      [] pc = "prompt" -> (MaxRows + 2) * IterationLength + 3
      [] OTHER -> (MaxRows + 2) * IterationLength + 4

\* run is at a statement whose action has its guard satisfied: a position
\* with an unguarded action, or a position inside the loop body with the
\* loop variable pointing into the list
NextStepExists ==
    \/ pc \in {"load", "prompt", "setup", "find", "loop", "cookie", "nav",
                "extract", "interrupted", "finally"}
    \/ pc \in {"scrape", "update", "save"} /\ i \in 1..Len(rows_to_process)

\* C4: for every count N >= 1 and every spreadsheet with P pending rows the
\* run terminates (until run has returned a next step exists, and every step
\* lowers a natural-number bound on the steps left), and a run that is not
\* cut short by an interruption or an unexpected error has processed exactly
\* min(N, P) rows, each selected row once and in order.
C4_ProcessesMinNP ==
    /\ [](pc # "exited" => NextStepExists)
    /\ [](StepsLeft >= 0)
    /\ [][StepsLeft' < StepsLeft]_vars
    /\ [](exitPath \in {"completed", "nothing_to_do"}
            => /\ processed_count = Min(num_websites, PendingAtLoad)
               /\ Len(processedLog) = processed_count
               /\ \A a \in 1..Len(processedLog) : processedLog[a] = rows_to_process[a][1])

\* three rows were asked for, one was pending, one was processed
C4_Witness ==
    /\ pc = "exited"
    /\ exitPath = "completed"
    /\ num_websites = 3
    /\ PendingAtLoad = 1
    /\ processed_count = 1

BeforeUpdatePcs == {"loop", "scrape", "cookie", "nav", "extract", "update"}

\* C5: after every processed row the table is saved before the next row is
\* fetched: the loop has called save_excel once per processed row, and when
\* the last save succeeded the file holds the table from the end of one
\* iteration until the next row is written.
C5_SavedAfterEveryRow ==
    /\ pc \in BeforeUpdatePcs => saveAttempts = processed_count
    /\ pc = "save" => saveAttempts = processed_count - 1
    /\ (pc \in BeforeUpdatePcs /\ processed_count >= 1 /\ lastSaveOk)
          => file = to_excel(df, file)

\* the second row is about to be fetched and the file holds the first row's result
C5_Witness ==
    /\ pc = "scrape"
    /\ i = 2
    /\ lastSaveOk
    /\ file # file0
    /\ file = to_excel(df, file)

\* C6: after any number of save_excel calls the backup file holds the
\* content the input file had before the run modified it.
C6_BackupHoldsOriginal ==
    saveAttempts + handlerSaves >= 1 => backup = file0

InterruptedPcs == {"interrupted", "finally", "exited"}

\* C7: once a keyboard interruption has arrived during processing, the run
\* is in its top-level handler or past it, never back in the loop, and it
\* exits having saved exactly once in the handler.
C7_InterruptReachesHandler ==
    /\ interrupted => pc \in InterruptedPcs
    /\ (interrupted /\ pc = "exited") => handlerSaves = 1

\* C8: whenever run has returned, a "press Enter" prompt was shown.
C8_EnterPromptOnEveryExit ==
    pc = "exited" => enterPrompts >= 1

AiFailures == {"unavailable", "raises", "badjson"}

unescape_phone(stored) ==
    IF startswith(stored, {"'"}) THEN Tail(stored) ELSE stored

StoredByRule(stored, phone) ==
    IF startswith(phone, {"+"})
    THEN /\ Len(stored) = Len(phone) + 1
         /\ stored[1] = "'"
         /\ \A k \in 1..Len(phone) : stored[k + 1] = phone[k]
    ELSE stored = phone

\* C10 as stated: the phone cell holds the value with one apostrophe in
\* front when the value begins with "+" and the value itself otherwise,
\* removing one leading apostrophe from the cell gives the value back, and
\* the email cell holds the email value.
C10_PhoneRoundTrip ==
    pc = "save"
       => /\ StoredByRule(df[CurrentIndex][phone_column], result[2])
          /\ unescape_phone(df[CurrentIndex][phone_column]) = result[2]
          /\ df[CurrentIndex][email_column] = result[1]

\* C10 amended: the same, with the round trip claimed only for values that
\* do not themselves begin with an apostrophe.
C10_PhoneRoundTripAmended ==
    pc = "save"
       => /\ StoredByRule(df[CurrentIndex][phone_column], result[2])
          /\ ~startswith(result[2], {"'"})
                => unescape_phone(df[CurrentIndex][phone_column]) = result[2]
          /\ df[CurrentIndex][email_column] = result[1]

\* a phone value beginning with "+" was written with the apostrophe
C10_Witness ==
    /\ pc = "save"
    /\ result[2] = PPlus
    /\ df[CurrentIndex][phone_column] = <<"'", "+", "370">>

\* the values scrape_website can return for a page the AI found contacts on
ExtractedEmails ==
    { join(take(r.emails, MaxContacts)) : r \in { x \in Responses : x.emails # <<>> } }

ExtractedPhones ==
    { join(take(r.phones, MaxContacts)) : r \in { x \in Responses : x.phones # <<>> } }

\* a phone value as the cell shows it, with or without the leading apostrophe
PhoneCellValues == ExtractedPhones \cup { <<"'">> \o v : v \in ExtractedPhones }

TerminalSentinels == {NotFound, Error, Duplicate}

ProcessedRowFilled(row) ==
    /\ row[email_column] \notin {NaN, EmptyStr}
    /\ row[phone_column] \notin {NaN, EmptyStr}
    /\ row[email_column] \in ExtractedEmails \cup TerminalSentinels
    /\ row[phone_column] \in PhoneCellValues \cup TerminalSentinels
    /\ row[email_column] = Error <=> row[phone_column] = Error
    /\ row[email_column] = Duplicate <=> row[phone_column] = Duplicate

KeywordSet == { contact_keywords[k] : k \in 1..Len(contact_keywords) }

\* the score the claim gives a link: +10 per keyword found in the text, +5
\* per keyword found in the href (every link of Pages is an eligible one: same
\* site, no javascript:, mailto:, tel: or fragment href)
LinkScore(link) ==
    10 * Cardinality({ kw \in KeywordSet : contains_keyword(link.text, kw) })
      + 5 * Cardinality({ kw \in KeywordSet : contains_keyword(link.href, kw) })

\* the first link with the highest positive score, 0 if no link scores
BestScoredLink(links) ==
    IF \A j \in 1..Len(links) : LinkScore(links[j]) = 0 THEN 0
    ELSE CHOOSE j \in 1..Len(links) :
            /\ LinkScore(links[j]) > 0
            /\ \A m \in 1..Len(links) : LinkScore(links[m]) <= LinkScore(links[j])
            /\ \A m \in 1..(j - 1) : LinkScore(links[m]) < LinkScore(links[j])

NavigationDone == pc = "extract" /\ nav.done /\ ~nav.swallowed

FirstWithKeyword(links, j, k) ==
    /\ contains_keyword(links[j].text, contact_keywords[k])
    /\ \A m \in 1..(j - 1) : ~contains_keyword(links[m].text, contact_keywords[k])

\* keyword number k leads to a click: its first link exists and is clickable
KeywordUsable(links, k) ==
    \E j \in 1..Len(links) : FirstWithKeyword(links, j, k) /\ links[j].clickable

SelectedRows == { rows_to_process[k][1] : k \in 1..Len(rows_to_process) }

CompleteAtLoad(k) ==
    /\ ~cell_empty(LoadedTable.df[k][email_column])
    /\ ~cell_empty(LoadedTable.df[k][phone_column])

C13_OnlyContactCellsOfSelectedRowsChange ==
    (pc # "load" /\ LoadedTable.ok) =>
        /\ Len(df) = Len(LoadedTable.df)
        /\ \A k \in 1..Len(df) :
              /\ df[k][url_column] = LoadedTable.df[k][url_column]
              /\ k \notin SelectedRows => df[k] = LoadedTable.df[k]
              /\ CompleteAtLoad(k) => df[k] = LoadedTable.df[k]

\* the same frame property for the cells other than the URL cell
C13_FrameOutsideUrlCell ==
    (pc # "load" /\ LoadedTable.ok) =>
        /\ Len(df) = Len(LoadedTable.df)
        /\ \A k \in 1..Len(df) :
              /\ df[k].url = LoadedTable.df[k].url
              /\ k \notin SelectedRows => df[k] = LoadedTable.df[k]
              /\ CompleteAtLoad(k) => df[k] = LoadedTable.df[k]

=============================================================================
